---- MODULE Spec2Model ----
(***************************************************************************)
(* tide-whisperer: the GET /{userID} request pipeline of                   *)
(* src/tide-whisperer.go (identity resolution, authorization gate, filter  *)
(* enrichment, query, streamed JSON array, error envelope).                *)
(***************************************************************************)
EXTENDS Integers, Sequences, FiniteSets, TLC

VARIABLES
    pc,          \* per handler goroutine: position in the handler
    req,         \* the inbound request (path userID, header, query string)
    queryParams, \* *store.Params built by GetParams, mutated by enrichment
    td,          \* *shoreline.TokenData (NoIdentity is nil)
    restrictedToken, \* result of authClient.GetRestrictedToken (locals l.483)
    perms,       \* result of gatekeeperClient.UserInGroup (locals l.382)
    lookups,     \* results of the store enrichment lookups (locals l.495-522)
    calls,       \* calls made to the external collaborators, in order
    iter,        \* store.StorageIterator: documents yielded, times closed
    writeCount,  \* processResults: documents written so far
    res,         \* http.ResponseWriter: status, content type, body
    envelope,    \* the JSON object written by jsonError
    logged,      \* the line jsonError writes to the server log
    catalog,     \* the package-level detailedError values
    denial,      \* history: which branch of the gate refused the request
    uuids,       \* number of ids uuid.NewV4 has handed out
    detErr       \* the detailedError copy a jsonError call is working on

vars == <<pc, req, queryParams, td, restrictedToken, perms, lookups, calls,
          iter, writeCount, res, envelope, logged, catalog, denial, uuids,
          detErr>>

----------------------------------------------------------------------------
(* Bounds *)

MaxDocs == 2        \* documents a cursor yields
MaxIds == 1         \* correlation ids handed out in one run

----------------------------------------------------------------------------
(* Inputs *)

\* the goroutine net/http runs the handler in
Reqs == {"h1"}

\* user ids of the owners of tokens
Users == {"A", "B"}

\* user ids in the path: the handler only compares the target with the owner
\* of the token (line 489) and passes it on, so against the owners in Users
\* one target gives both the target itself and another user
TargetUsers == {"A"}

\* the name a server token carries as its UserID
ServerID == "server"

\* how many restricted_token values the query string carries
RestrictedCounts == {0, 1, 2}

----------------------------------------------------------------------------
(* Program constants *)

StatusOK == 200
StatusForbidden == 403
StatusInternalServerError == 500

MedtronicLoopBoundaryDate == "2017-09-01"

\* zero value of the detailedError fields that a catalog entry leaves unset
error_status_check ==
    [Status |-> StatusInternalServerError, Id |-> 0,
     Code |-> "data_status_check",
     Message |-> "checking of the status endpoint showed an error",
     InternalMessage |-> ""]

error_no_view_permisson ==
    [Status |-> StatusForbidden, Id |-> 0, Code |-> "data_cant_view",
     Message |-> "user is not authorized to view data", InternalMessage |-> ""]

error_no_permissons ==
    [Status |-> StatusInternalServerError, Id |-> 0,
     Code |-> "data_perms_error",
     Message |-> "error finding permissons for user", InternalMessage |-> ""]

error_running_query ==
    [Status |-> StatusInternalServerError, Id |-> 0,
     Code |-> "data_store_error",
     Message |-> "internal server error", InternalMessage |-> ""]

\* variant: a parameter error is a client error
error_invalid_parameters_badRequest ==
    [Status |-> 400, Id |-> 0,
     Code |-> "invalid_parameters",
     Message |-> "one or more parameters are invalid", InternalMessage |-> ""]

error_invalid_parameters ==
    [Status |-> StatusInternalServerError, Id |-> 0,
     Code |-> "invalid_parameters",
     Message |-> "one or more parameters are invalid", InternalMessage |-> ""]

error_loading_events ==
    [Status |-> StatusInternalServerError, Id |-> 0,
     Code |-> "data_marshal_error",
     Message |-> "internal server error", InternalMessage |-> ""]

\* the var block of lines 309-317
Catalog ==
    [error_status_check |-> error_status_check,
     error_no_view_permisson |-> error_no_view_permisson,
     error_no_permissons |-> error_no_permissons,
     error_running_query |-> error_running_query,
     error_loading_events |-> error_loading_events,
     error_invalid_parameters |-> error_invalid_parameters]

----------------------------------------------------------------------------
(* Values *)

NoIdentity == [UserID |-> "", IsServer |-> FALSE, nil |-> TRUE]
TokenData(u, s) == [UserID |-> u, IsServer |-> s, nil |-> FALSE]

NoParams == [UserId |-> "", Carelink |-> FALSE, Dexcom |-> FALSE,
             DexcomDataSource |-> "nil", Medtronic |-> FALSE,
             MedtronicDate |-> "", MedtronicUploadIds |-> "nil"]

NoRequest == [path |-> "", userID |-> "", sessionToken |-> "",
              restricted |-> 0, dates |-> "ok", carelink |-> "absent",
              dexcom |-> "absent", medtronic |-> "absent"]

Flag == {"absent", "true", "false"}

\* GET /{userID}
DataRequests == [path : {"data"}, userID : TargetUsers,
                 sessionToken : {"", "token"},
                 restricted : RestrictedCounts, dates : {"ok", "bad"},
                 carelink : Flag, dexcom : Flag, medtronic : Flag]

\* GET /status
StatusRequest == [NoRequest EXCEPT !.path = "status"]

Requests == DataRequests \cup {StatusRequest}

NoRestricted == [called |-> FALSE, err |-> FALSE, nil |-> TRUE, UserID |-> "",
                 Authenticates |-> FALSE]

NoPerms == [called |-> FALSE, err |-> FALSE, nil |-> TRUE, root |-> FALSE,
            view |-> FALSE]

NoLookups == [hasMedtronicDirectData |-> "none", dexcomDataSource |-> "none",
              hasMedtronicLoopData |-> "none", medtronicUploadIds |-> "none",
              ping |-> "none"]

\* the zero value of detailedError
NoError == [Status |-> 0, Id |-> 0, Code |-> "", Message |-> "",
            InternalMessage |-> ""]

NoIter == [open |-> FALSE, docs |-> <<>>, closed |-> 0, err |-> FALSE]

NoResponse == [status |-> 0, contentType |-> 0, body |-> <<>>]

NoEnvelope == [status |-> 0, id |-> 0, code |-> "", message |-> ""]

NoLog == [id |-> 0, code |-> "", message |-> "", internal |-> ""]

----------------------------------------------------------------------------
(* net/http ResponseWriter *)

\* WriteHeader commits the status once
WriteHeader(w, code) ==
    IF w.status = 0 THEN [w EXCEPT !.status = code] ELSE w

\* the first Write commits 200 if no status has been committed
Write(w, bytes) ==
    LET h == WriteHeader(w, StatusOK)
    IN  [h EXCEPT !.body = Append(@, bytes)]

HeaderAdd(w) == [w EXCEPT !.contentType = @ + 1]

----------------------------------------------------------------------------
(* Error reporting *)

setInternalMessage(d, internal) == [d EXCEPT !.InternalMessage = internal]

\* json.Marshal of a detailedError: InternalMessage is tagged json:"-"
MarshalError(d) ==
    [status |-> d.Status, id |-> d.Id, code |-> d.Code, message |-> d.Message]

\* variant: the body is written before the status (lines 127-128 of the
\* earlier version of the file)
jsonErrorResponse_bodyFirst(w, err, id) ==
    WriteHeader(Write(HeaderAdd(w), "error"), err.Status)

\* the response after jsonError(res, err, start) with the fresh id
jsonErrorResponse(w, err, id) ==
    Write(WriteHeader(HeaderAdd(w), err.Status), "error")

jsonErrorEnvelope(err, id) == MarshalError([err EXCEPT !.Id = id])

\* line 397
jsonErrorLog(err, id) ==
    [id |-> id, code |-> err.Code, message |-> err.Message,
     internal |-> err.InternalMessage]

\* err is the caller's copy of the catalog entry
jsonError(r, err) ==
    /\ uuids' = uuids + 1
    /\ logged' = [logged EXCEPT ![r] = jsonErrorLog(err, uuids + 1)]
    /\ res' = [res EXCEPT ![r] = jsonErrorResponse(@, err, uuids + 1)]
    /\ envelope' = [envelope EXCEPT ![r] = jsonErrorEnvelope(err, uuids + 1)]

----------------------------------------------------------------------------
(* Initial state *)

Init ==
    /\ pc = [r \in Reqs |-> "idle"]
    /\ req = [r \in Reqs |-> NoRequest]
    /\ queryParams = [r \in Reqs |-> NoParams]
    /\ td = [r \in Reqs |-> NoIdentity]
    /\ restrictedToken = [r \in Reqs |-> NoRestricted]
    /\ perms = [r \in Reqs |-> NoPerms]
    /\ lookups = [r \in Reqs |-> NoLookups]
    /\ calls = [r \in Reqs |-> <<>>]
    /\ iter = [r \in Reqs |-> NoIter]
    /\ writeCount = [r \in Reqs |-> 0]
    /\ res = [r \in Reqs |-> NoResponse]
    /\ envelope = [r \in Reqs |-> NoEnvelope]
    /\ logged = [r \in Reqs |-> NoLog]
    /\ catalog = Catalog
    /\ denial = [r \in Reqs |-> "none"]
    /\ uuids = 0
    /\ detErr = [r \in Reqs |-> NoError]

----------------------------------------------------------------------------
(* store.GetParams: the query string parsed into the filter *)

GetParamsFails(q) == q.dates = "bad"

GetParams(q) ==
    [UserId |-> q.userID,
     Carelink |-> (q.carelink = "true"),
     Dexcom |-> (q.dexcom = "true"),
     DexcomDataSource |-> "nil",
     Medtronic |-> (q.medtronic = "true"),
     MedtronicDate |-> "",
     MedtronicUploadIds |-> "nil"]

----------------------------------------------------------------------------
(* Results the external collaborators can return *)

\* shorelineClient.CheckToken: nil, or the data of a valid token
CheckTokenResults ==
    {NoIdentity, TokenData(ServerID, TRUE)}
    \cup {TokenData(u, FALSE) : u \in Users}

\* authClient.GetRestrictedToken: (nil, err), (nil, nil) or (token, nil)
GetRestrictedTokenResults ==
    {[called |-> TRUE, err |-> TRUE, nil |-> TRUE, UserID |-> "",
      Authenticates |-> FALSE],
     [called |-> TRUE, err |-> FALSE, nil |-> TRUE, UserID |-> "",
      Authenticates |-> FALSE]}
    \cup {[called |-> TRUE, err |-> FALSE, nil |-> FALSE, UserID |-> u,
           Authenticates |-> a] : u \in Users, a \in BOOLEAN}

\* gatekeeperClient.UserInGroup: an error, no permissions map at all (the
\* sharing service knows no such user or group), or the map of permissions
UserInGroupResults ==
    {[called |-> TRUE, err |-> TRUE, nil |-> TRUE, root |-> FALSE,
      view |-> FALSE],
     [called |-> TRUE, err |-> FALSE, nil |-> TRUE, root |-> FALSE,
      view |-> FALSE]}
    \cup {[called |-> TRUE, err |-> FALSE, nil |-> FALSE, root |-> ro,
           view |-> vi] : ro \in BOOLEAN, vi \in BOOLEAN}

\* storage.Ping: nil, or the text of the error
PingResults == {"ok", "ping failed", "no reachable servers"}

\* a store lookup with a boolean answer
HasDataResults == {"err", "true", "false"}

GetDexcomDataSourceResults == {"err", "nil", "source"}

GetUploadIdsResults == {"err", "empty", "ids"}

\* what iterator.Next puts into results: an empty document, one that
\* json.Marshal accepts, one that json.Marshal rejects
Documents == {"empty", "doc", "unmarshalable"}

----------------------------------------------------------------------------
(* Authorization *)

\* variant: a failed lookup lets the caller through
userCanViewData_failOpen(authenticatedUserID, targetUserID, p) ==
    IF authenticatedUserID = targetUserID THEN TRUE
    ELSE IF p.err THEN TRUE
    ELSE ~(~p.root /\ ~p.view)

\* variant: both permissions are required
userCanViewData_both(authenticatedUserID, targetUserID, p) ==
    IF authenticatedUserID = targetUserID THEN TRUE
    ELSE IF p.err THEN FALSE
    ELSE p.root /\ p.view

\* userCanViewData with the answer of UserInGroup
userCanViewData(authenticatedUserID, targetUserID, p) ==
    IF authenticatedUserID = targetUserID THEN TRUE
    ELSE IF p.err THEN FALSE
    ELSE ~(~p.root /\ ~p.view)

\* the lookup is reached only after the earlier disjuncts were false
CallsUserInGroup(t, target) ==
    /\ ~t.nil
    /\ ~t.IsServer
    /\ t.UserID # target

\* variant: the gate only asks for an identity
Denied_identityOnly(t, target, p) == t.nil

Denied(t, target, p) ==
    t.nil \/ ~(t.IsServer \/ t.UserID = target
               \/ userCanViewData(t.UserID, target, p))

DenialCause(t, p) ==
    IF t.nil THEN "no_identity"
    ELSE IF p.err THEN "lookup_failed"
    ELSE "no_permission"

\* variant: a failed lookup is reported with its own catalog entry
GateError_perCause(cause) ==
    IF cause = "lookup_failed" THEN catalog.error_no_permissons
    ELSE catalog.error_no_view_permisson

\* line 490: the entry reported does not depend on the cause
GateError(cause) == catalog.error_no_view_permisson

----------------------------------------------------------------------------
(* Identity resolution, lines 479-487 *)

\* variant: the restricted token is tried first
TokenSource_restrictedFirst(q) ==
    IF q.restricted = 1 THEN "restricted"
    ELSE IF q.sessionToken # "" THEN "session"
    ELSE "none"

\* which credential is looked at
TokenSource(q) ==
    IF q.sessionToken # "" THEN "session"
    ELSE IF q.restricted = 1 THEN "restricted"
    ELSE "none"

\* variant: the token is not asked whether it authenticates the request
RestrictedTokenAccepted_unchecked(t) == ~t.err /\ ~t.nil

\* line 484
RestrictedTokenAccepted(t) == ~t.err /\ ~t.nil /\ t.Authenticates

\* line 485
RestrictedIdentity(t) == TokenData(t.UserID, FALSE)

----------------------------------------------------------------------------
(* Filter enrichment, lines 494-530 *)

\* variant: the test of the lookup result is inverted
resolveCarelink_inverted(p, hasMedtronicDirectData) ==
    IF hasMedtronicDirectData = "true" THEN [p EXCEPT !.Carelink = TRUE] ELSE p

\* lines 499-501
resolveCarelink(p, hasMedtronicDirectData) ==
    IF hasMedtronicDirectData = "false" THEN [p EXCEPT !.Carelink = TRUE] ELSE p

\* variant: the result of the lookup is not stored in the filter
attachDexcomDataSource_dropped(p, dexcomDataSource) == p

\* line 509
attachDexcomDataSource(p, dexcomDataSource) ==
    [p EXCEPT !.DexcomDataSource = dexcomDataSource]

\* variant: the test of the lookup result is inverted
resolveMedtronic_inverted(p, hasMedtronicLoopData) ==
    IF hasMedtronicLoopData = "true" THEN [p EXCEPT !.Medtronic = TRUE] ELSE p

\* lines 517-519
resolveMedtronic(p, hasMedtronicLoopData) ==
    IF hasMedtronicLoopData = "false" THEN [p EXCEPT !.Medtronic = TRUE] ELSE p

\* variant: the boundary date is not attached
attachMedtronicUploadIds_noDate(p, medtronicUploadIds) ==
    [p EXCEPT !.MedtronicUploadIds = medtronicUploadIds]

\* lines 527-528
attachMedtronicUploadIds(p, medtronicUploadIds) ==
    [p EXCEPT !.MedtronicDate = MedtronicLoopBoundaryDate,
              !.MedtronicUploadIds = medtronicUploadIds]

\* variant: the return after jsonError is missing
afterFailure_fallthrough(next) == next

\* lines 498, 507, 516, 525: the handler returns after reporting the failure
\* of a lookup; next is where it would have gone on
afterFailure(next) == "done"

----------------------------------------------------------------------------
(* The handler of GET /{userID}, one step per blocking call *)

Log(r, name) == calls' = [calls EXCEPT ![r] = Append(@, name)]

Accept(r) ==
    /\ pc[r] = "idle"
    /\ \A q \in Reqs : pc[q] = "idle"
    /\ uuids < MaxIds
    /\ \E q \in Requests :
         /\ req' = [req EXCEPT ![r] = q]
         /\ pc' = [pc EXCEPT ![r] = IF q.path = "status" THEN "ping"
                                    ELSE "parse"]
    /\ UNCHANGED <<queryParams, td, restrictedToken, perms, lookups, calls,
                   iter, writeCount, res, envelope, logged, denial, catalog,
                   detErr, uuids>>

\* the handler of GET /status, lines 446-454
Status(r) ==
    /\ pc[r] = "ping"
    /\ \E ping \in PingResults :
         /\ lookups' = [lookups EXCEPT ![r].ping = ping]
         /\ IF ping # "ok"
            THEN jsonError(r, setInternalMessage(catalog.error_status_check,
                                                 ping))
            ELSE /\ res' = [res EXCEPT ![r] = Write(@, "OK\n")]
                 /\ UNCHANGED <<envelope, logged, uuids>>
    /\ Log(r, "Ping")
    /\ pc' = [pc EXCEPT ![r] = "done"]
    /\ UNCHANGED <<req, queryParams, td, restrictedToken, perms, iter,
                   writeCount, denial, catalog, detErr>>

Parse(r) ==
    /\ pc[r] = "parse"
    /\ IF GetParamsFails(req[r])
       THEN /\ jsonError(r, catalog.error_invalid_parameters)
            /\ pc' = [pc EXCEPT ![r] = "done"]
            /\ UNCHANGED queryParams
       ELSE /\ queryParams' = [queryParams EXCEPT ![r] = GetParams(req[r])]
            /\ pc' = [pc EXCEPT ![r] = "auth"]
            /\ UNCHANGED <<res, envelope, logged, uuids>>
    /\ UNCHANGED <<req, td, restrictedToken, perms, lookups, calls, iter,
                   writeCount, denial, catalog, detErr>>

Authenticate(r) ==
    /\ pc[r] = "auth"
    /\ IF TokenSource(req[r]) = "session"
       THEN /\ \E t \in CheckTokenResults : td' = [td EXCEPT ![r] = t]
            /\ Log(r, "CheckToken")
            /\ UNCHANGED restrictedToken
       ELSE IF TokenSource(req[r]) = "restricted"
       THEN /\ \E t \in GetRestrictedTokenResults :
                 /\ restrictedToken' = [restrictedToken EXCEPT ![r] = t]
                 /\ IF RestrictedTokenAccepted(t)
                    THEN td' = [td EXCEPT ![r] = RestrictedIdentity(t)]
                    ELSE UNCHANGED td
            /\ Log(r, "GetRestrictedToken")
       ELSE UNCHANGED <<td, restrictedToken, calls>>
    /\ pc' = [pc EXCEPT ![r] = "gate"]
    /\ UNCHANGED <<req, queryParams, perms, lookups, iter, writeCount, res,
                   envelope, logged, denial, catalog, detErr, uuids>>

Gate(r) ==
    /\ pc[r] = "gate"
    /\ \E p \in (IF CallsUserInGroup(td[r], queryParams[r].UserId)
                 THEN UserInGroupResults
                 ELSE {NoPerms}) :
         /\ perms' = [perms EXCEPT ![r] = p]
         /\ IF p.called THEN Log(r, "UserInGroup") ELSE UNCHANGED calls
         /\ IF Denied(td[r], queryParams[r].UserId, p)
            THEN /\ jsonError(r, GateError(DenialCause(td[r], p)))
                 /\ denial' = [denial EXCEPT ![r] = DenialCause(td[r], p)]
                 /\ pc' = [pc EXCEPT ![r] = "done"]
            ELSE /\ pc' = [pc EXCEPT ![r] = "carelink"]
                 /\ UNCHANGED <<res, envelope, logged, uuids, denial>>
    /\ UNCHANGED <<req, queryParams, td, restrictedToken, lookups, iter,
                   writeCount, catalog, detErr>>

\* lines 494-502
Carelink(r) ==
    /\ pc[r] = "carelink"
    /\ IF req[r].carelink = "absent"
       THEN \E h \in HasDataResults :
              /\ lookups' = [lookups EXCEPT ![r].hasMedtronicDirectData = h]
              /\ Log(r, "HasMedtronicDirectData")
              /\ IF h = "err"
                 THEN /\ jsonError(r, catalog.error_running_query)
                      /\ pc' = [pc EXCEPT ![r] = afterFailure("dexcom")]
                      /\ UNCHANGED queryParams
                 ELSE /\ queryParams' =
                            [queryParams EXCEPT ![r] = resolveCarelink(@, h)]
                      /\ pc' = [pc EXCEPT ![r] = "dexcom"]
                      /\ UNCHANGED <<res, envelope, logged, uuids>>
       ELSE /\ pc' = [pc EXCEPT ![r] = "dexcom"]
            /\ UNCHANGED <<queryParams, lookups, calls, res, envelope, logged,
                           uuids>>
    /\ UNCHANGED <<req, td, restrictedToken, perms, iter, writeCount, denial,
                   catalog, detErr>>

\* lines 503-511
Dexcom(r) ==
    /\ pc[r] = "dexcom"
    /\ IF ~queryParams[r].Dexcom
       THEN \E d \in GetDexcomDataSourceResults :
              /\ lookups' = [lookups EXCEPT ![r].dexcomDataSource = d]
              /\ Log(r, "GetDexcomDataSource")
              /\ IF d = "err"
                 THEN /\ jsonError(r, catalog.error_running_query)
                      /\ pc' = [pc EXCEPT ![r] = afterFailure("medtronic")]
                      /\ UNCHANGED queryParams
                 ELSE /\ queryParams' =
                            [queryParams EXCEPT
                               ![r] = attachDexcomDataSource(@, d)]
                      /\ pc' = [pc EXCEPT ![r] = "medtronic"]
                      /\ UNCHANGED <<res, envelope, logged, uuids>>
       ELSE /\ pc' = [pc EXCEPT ![r] = "medtronic"]
            /\ UNCHANGED <<queryParams, lookups, calls, res, envelope, logged,
                           uuids>>
    /\ UNCHANGED <<req, td, restrictedToken, perms, iter, writeCount, denial,
                   catalog, detErr>>

\* lines 512-520
MedtronicLoop(r) ==
    /\ pc[r] = "medtronic"
    /\ IF req[r].medtronic = "absent"
       THEN \E h \in HasDataResults :
              /\ lookups' = [lookups EXCEPT ![r].hasMedtronicLoopData = h]
              /\ Log(r, "HasMedtronicLoopDataAfter")
              /\ IF h = "err"
                 THEN /\ jsonError(r, catalog.error_running_query)
                      /\ pc' = [pc EXCEPT ![r] = afterFailure("uploadids")]
                      /\ UNCHANGED queryParams
                 ELSE /\ queryParams' =
                            [queryParams EXCEPT ![r] = resolveMedtronic(@, h)]
                      /\ pc' = [pc EXCEPT ![r] = "uploadids"]
                      /\ UNCHANGED <<res, envelope, logged, uuids>>
       ELSE /\ pc' = [pc EXCEPT ![r] = "uploadids"]
            /\ UNCHANGED <<queryParams, lookups, calls, res, envelope, logged,
                           uuids>>
    /\ UNCHANGED <<req, td, restrictedToken, perms, iter, writeCount, denial,
                   catalog, detErr>>

\* lines 521-530
UploadIds(r) ==
    /\ pc[r] = "uploadids"
    /\ IF ~queryParams[r].Medtronic
       THEN \E u \in GetUploadIdsResults :
              /\ lookups' = [lookups EXCEPT ![r].medtronicUploadIds = u]
              /\ Log(r, "GetLoopableMedtronicDirectUploadIdsAfter")
              /\ IF u = "err"
                 THEN /\ jsonError(r, catalog.error_running_query)
                      /\ pc' = [pc EXCEPT ![r] = afterFailure("query")]
                      /\ UNCHANGED queryParams
                 ELSE /\ queryParams' =
                            [queryParams EXCEPT
                               ![r] = attachMedtronicUploadIds(@, u)]
                      /\ pc' = [pc EXCEPT ![r] = "query"]
                      /\ UNCHANGED <<res, envelope, logged, uuids>>
       ELSE /\ pc' = [pc EXCEPT ![r] = "query"]
            /\ UNCHANGED <<queryParams, lookups, calls, res, envelope, logged,
                           uuids>>
    /\ UNCHANGED <<req, td, restrictedToken, perms, iter, writeCount, denial,
                   catalog, detErr>>

\* lines 532-535: the query is handed the filter and returns the cursor
Query(r) ==
    /\ pc[r] = "query"
    /\ iter' = [iter EXCEPT ![r] = [NoIter EXCEPT !.open = TRUE]]
    /\ Log(r, "GetDeviceData")
    /\ pc' = [pc EXCEPT ![r] = "stream"]
    /\ UNCHANGED <<req, queryParams, td, restrictedToken, perms, lookups, res,
                   writeCount, envelope, logged, denial, catalog, detErr,
                   uuids>>

----------------------------------------------------------------------------
(* processResults *)

\* lines 411-412
processResultsOpen(w) == Write(HeaderAdd(w), "[")

\* variant: the comma does not look at writeCount
processResultsDocument_comma(w, n, results) ==
    IF results # "empty"
    THEN IF results = "unmarshalable"
         THEN <<w, n>>
         ELSE <<Write(Write(Write(w, ","), "\n"), results), n + 1>>
    ELSE <<w, n>>

\* variant: a document that fails to serialize is reported to the client
\* with error_loading_events, as the earlier version of the file did
processResultsDocument_reports(w, n, results) ==
    IF results # "empty"
    THEN IF results = "unmarshalable"
         THEN <<jsonErrorResponse(w, error_loading_events, 0), n>>
         ELSE <<Write(Write(IF n > 0 THEN Write(w, ",") ELSE w, "\n"),
                      results),
                n + 1>>
    ELSE <<w, n>>

\* variant: a document that fails to serialize is counted as written
processResultsDocument_countsSkipped(w, n, results) ==
    IF results # "empty"
    THEN IF results = "unmarshalable"
         THEN <<w, n + 1>>
         ELSE <<Write(Write(IF n > 0 THEN Write(w, ",") ELSE w, "\n"),
                      results),
                n + 1>>
    ELSE <<w, n>>

\* lines 416-427: one pass of the loop body over the document in results;
\* n is writeCount, the second component its new value
processResultsDocument(w, n, results) ==
    IF results # "empty"
    THEN IF results = "unmarshalable"
         THEN <<w, n>>
         ELSE <<Write(Write(IF n > 0 THEN Write(w, ",") ELSE w, "\n"),
                      results),
                n + 1>>
    ELSE <<w, n>>

\* variant: the newline before the bracket is always written
processResultsClose_newline(w, n) == Write(Write(w, "\n"), "]")

\* lines 430-433
processResultsClose(w, n) ==
    Write(IF n > 0 THEN Write(w, "\n") ELSE w, "]")

StreamOpen(r) ==
    /\ pc[r] = "stream"
    /\ res' = [res EXCEPT ![r] = processResultsOpen(@)]
    /\ writeCount' = [writeCount EXCEPT ![r] = 0]
    /\ pc' = [pc EXCEPT ![r] = "next"]
    /\ UNCHANGED <<req, queryParams, td, restrictedToken, perms, lookups,
                   calls, iter, envelope, logged, denial, catalog, detErr,
                   uuids>>

\* iterator.Next returned true
StreamNext(r) ==
    /\ pc[r] = "next"
    /\ Len(iter[r].docs) < MaxDocs
    /\ \E results \in Documents :
         LET out == processResultsDocument(res[r], writeCount[r], results)
         IN  /\ res' = [res EXCEPT ![r] = out[1]]
             /\ writeCount' = [writeCount EXCEPT ![r] = out[2]]
             /\ iter' = [iter EXCEPT ![r].docs = Append(@, results)]
    /\ UNCHANGED <<pc, req, queryParams, td, restrictedToken, perms, lookups,
                   calls, envelope, logged, denial, catalog, detErr, uuids>>

\* variant: iter.Close is called after processResults, not deferred
deferredClose_notDeferred(it, panicking) ==
    IF panicking THEN it ELSE [it EXCEPT !.closed = @ + 1]

\* line 535: defer iter.Close() runs when the handler returns and when it
\* unwinds from a panic
deferredClose(it, panicking) == [it EXCEPT !.closed = @ + 1]

\* line 415: iterator.Next returned false, because the cursor is exhausted or
\* because the query failed (failed is what iter.Err and iter.Close would
\* report; the handler reads neither); the deferred iter.Close runs on return
StreamEnd(r) ==
    /\ pc[r] = "next"
    /\ res' = [res EXCEPT ![r] = processResultsClose(@, writeCount[r])]
    /\ \E failed \in BOOLEAN :
         iter' = [iter EXCEPT
                    ![r] = deferredClose([@ EXCEPT !.err = failed], FALSE)]
    /\ Log(r, "Close")
    /\ pc' = [pc EXCEPT ![r] = "done"]
    /\ UNCHANGED <<writeCount, req, queryParams, td, restrictedToken, perms,
                   lookups, envelope, logged, denial, catalog, detErr, uuids>>

\* line 417: json.Marshal panics on the document; processResults and the
\* handler unwind, the deferred iter.Close runs, and net/http recovers the
\* panic and drops the connection: nothing more is written
StreamPanic(r) ==
    /\ pc[r] = "next"
    /\ Len(iter[r].docs) < MaxDocs
    /\ iter' = [iter EXCEPT
                  ![r] = deferredClose([@ EXCEPT !.docs = Append(@, "panics")],
                                       TRUE)]
    /\ Log(r, "Close")
    /\ pc' = [pc EXCEPT ![r] = "aborted"]
    /\ UNCHANGED <<res, writeCount, req, queryParams, td, restrictedToken,
                   perms, lookups, envelope, logged, denial, catalog, detErr,
                   uuids>>

\* the handler has returned; the goroutine serves the next connection
Finish(r) ==
    /\ pc[r] \in {"done", "aborted"}
    /\ pc' = [pc EXCEPT ![r] = "idle"]
    /\ req' = [req EXCEPT ![r] = NoRequest]
    /\ queryParams' = [queryParams EXCEPT ![r] = NoParams]
    /\ td' = [td EXCEPT ![r] = NoIdentity]
    /\ restrictedToken' = [restrictedToken EXCEPT ![r] = NoRestricted]
    /\ perms' = [perms EXCEPT ![r] = NoPerms]
    /\ lookups' = [lookups EXCEPT ![r] = NoLookups]
    /\ calls' = [calls EXCEPT ![r] = <<>>]
    /\ iter' = [iter EXCEPT ![r] = NoIter]
    /\ writeCount' = [writeCount EXCEPT ![r] = 0]
    /\ res' = [res EXCEPT ![r] = NoResponse]
    /\ envelope' = [envelope EXCEPT ![r] = NoEnvelope]
    /\ logged' = [logged EXCEPT ![r] = NoLog]
    /\ denial' = [denial EXCEPT ![r] = "none"]
    /\ detErr' = [detErr EXCEPT ![r] = NoError]
    /\ UNCHANGED <<catalog, uuids>>

----------------------------------------------------------------------------
(* Specification *)

Next ==
    \E r \in Reqs :
        \/ Accept(r)
        \/ Status(r)
        \/ Parse(r)
        \/ Authenticate(r)
        \/ Gate(r)
        \/ Carelink(r)
        \/ Dexcom(r)
        \/ MedtronicLoop(r)
        \/ UploadIds(r)
        \/ Query(r)
        \/ StreamOpen(r)
        \/ StreamNext(r)
        \/ StreamEnd(r)
        \/ StreamPanic(r)
        \/ Finish(r)

Spec == Init /\ [][Next]_vars

----------------------------------------------------------------------------
(* Handlers running side by side: net/http serves every connection in its
   own goroutine, and the goroutines share the package-level catalog and the
   id generator. The requests are the ones that end in jsonError right away,
   GET /status with a failing store and GET /{userID} with an unparsable
   date, and jsonError is taken statement by statement. *)

Handlers == {"h1", "h2"}

ConcRequests ==
    {StatusRequest}
    \cup {q \in DataRequests : /\ q.dates = "bad"
                               /\ q.sessionToken = ""
                               /\ q.restricted = 0
                               /\ q.carelink = "absent"
                               /\ q.dexcom = "absent"
                               /\ q.medtronic = "absent"}

InitConc ==
    /\ pc = [r \in Handlers |-> "idle"]
    /\ req = [r \in Handlers |-> NoRequest]
    /\ queryParams = [r \in Handlers |-> NoParams]
    /\ td = [r \in Handlers |-> NoIdentity]
    /\ restrictedToken = [r \in Handlers |-> NoRestricted]
    /\ perms = [r \in Handlers |-> NoPerms]
    /\ lookups = [r \in Handlers |-> NoLookups]
    /\ calls = [r \in Handlers |-> <<>>]
    /\ iter = [r \in Handlers |-> NoIter]
    /\ writeCount = [r \in Handlers |-> 0]
    /\ res = [r \in Handlers |-> NoResponse]
    /\ envelope = [r \in Handlers |-> NoEnvelope]
    /\ logged = [r \in Handlers |-> NoLog]
    /\ catalog = Catalog
    /\ denial = [r \in Handlers |-> "none"]
    /\ uuids = 0
    /\ detErr = [r \in Handlers |-> NoError]

\* variant: the receiver and the parameter are pointers to the entry
passedByValue_pointer(cat, name, d) == [cat EXCEPT ![name] = d]

\* lines 327 and 393: setInternalMessage has a value receiver and jsonError
\* takes err by value, so what is assigned to d, the copy, does not reach
\* the package-level entry name of cat
passedByValue(cat, name, d) == cat

\* the catalog entry the handler of q reports
EntryName(q) ==
    IF q.path = "status" THEN "error_status_check"
    ELSE "error_invalid_parameters"

\* a connection is handed to a goroutine whatever the others are doing
ConcAccept(r) ==
    /\ pc[r] = "idle"
    /\ uuids < MaxIds
    /\ \E q \in ConcRequests :
         /\ req' = [req EXCEPT ![r] = q]
         /\ pc' = [pc EXCEPT ![r] = IF q.path = "status" THEN "ping"
                                    ELSE "parse"]
    /\ UNCHANGED <<queryParams, td, restrictedToken, perms, lookups, calls,
                   iter, writeCount, res, envelope, logged, denial, catalog,
                   uuids, detErr>>

\* lines 447-452: the probe, and on failure the call of setInternalMessage
\* on the entry, whose result is the argument of jsonError
ConcStatus(r) ==
    /\ pc[r] = "ping"
    /\ \E ping \in PingResults :
         /\ lookups' = [lookups EXCEPT ![r].ping = ping]
         /\ IF ping # "ok"
            THEN LET d == setInternalMessage(catalog.error_status_check, ping)
                 IN  /\ detErr' = [detErr EXCEPT ![r] = d]
                     /\ catalog' = passedByValue(catalog,
                                                 "error_status_check", d)
                     /\ pc' = [pc EXCEPT ![r] = "jsonError"]
                     /\ UNCHANGED res
            ELSE /\ res' = [res EXCEPT ![r] = Write(@, "OK\n")]
                 /\ pc' = [pc EXCEPT ![r] = "done"]
                 /\ UNCHANGED <<detErr, catalog>>
    /\ Log(r, "Ping")
    /\ UNCHANGED <<req, queryParams, td, restrictedToken, perms, iter,
                   writeCount, envelope, logged, denial, uuids>>

\* lines 471-475: the parameters do not parse, the entry is the argument of
\* jsonError
ConcParse(r) ==
    /\ pc[r] = "parse"
    /\ GetParamsFails(req[r])
    /\ detErr' = [detErr EXCEPT ![r] = catalog.error_invalid_parameters]
    /\ pc' = [pc EXCEPT ![r] = "jsonError"]
    /\ UNCHANGED <<req, queryParams, td, restrictedToken, perms, lookups,
                   calls, iter, writeCount, res, envelope, logged, denial,
                   catalog, uuids>>

\* line 395: err.Id = uuid.NewV4().String()
ConcJsonErrorId(r) ==
    /\ pc[r] = "jsonError"
    /\ uuids' = uuids + 1
    /\ LET d == [detErr[r] EXCEPT !.Id = uuids + 1]
       IN  /\ detErr' = [detErr EXCEPT ![r] = d]
           /\ catalog' = passedByValue(catalog, EntryName(req[r]), d)
    /\ pc' = [pc EXCEPT ![r] = "respond"]
    /\ UNCHANGED <<req, queryParams, td, restrictedToken, perms, lookups,
                   calls, iter, writeCount, res, envelope, logged, denial>>

\* lines 397-403: the log line, the marshalled envelope, header, status, body
ConcJsonErrorRespond(r) ==
    /\ pc[r] = "respond"
    /\ logged' = [logged EXCEPT ![r] = jsonErrorLog(detErr[r], detErr[r].Id)]
    /\ envelope' = [envelope EXCEPT ![r] = MarshalError(detErr[r])]
    /\ res' = [res EXCEPT
                 ![r] = jsonErrorResponse(@, detErr[r], detErr[r].Id)]
    /\ pc' = [pc EXCEPT ![r] = "done"]
    /\ UNCHANGED <<req, queryParams, td, restrictedToken, perms, lookups,
                   calls, iter, writeCount, denial, catalog, uuids, detErr>>

NextConc ==
    \E r \in Handlers :
        \/ ConcAccept(r)
        \/ ConcStatus(r)
        \/ ConcParse(r)
        \/ ConcJsonErrorId(r)
        \/ ConcJsonErrorRespond(r)
        \/ Finish(r)

SpecConc == InitConc /\ [][NextConc]_vars

----------------------------------------------------------------------------
(* What the claims speak about *)

Target(r) == req[r].userID

Parsed(r) == ~GetParamsFails(req[r])

\* the handler of GET /{userID} has returned and its response is complete (a
\* handler that unwound from a panic leaves an aborted connection instead)
Finished(r) == req[r].path = "data" /\ pc[r] = "done"

\* the handler of GET /status has returned
StatusFinished(r) == req[r].path = "status" /\ pc[r] = "done"

\* the gate has decided
PastGate(r) ==
    \/ pc[r] \in {"carelink", "dexcom", "medtronic", "uploadids", "query",
                  "stream", "next"}
    \/ Finished(r) /\ Parsed(r)

\* identity resolution has run
PastAuth(r) == pc[r] = "gate" \/ PastGate(r)

Called(r, name) == \E i \in 1..Len(calls[r]) : calls[r][i] = name

TimesCalled(r, name) == Len(SelectSeq(calls[r], LAMBDA c : c = name))

\* what the client receives, the correlation id left out
ClientView(r) ==
    [status |-> res[r].status, contentType |-> res[r].contentType,
     body |-> res[r].body, envStatus |-> envelope[r].status,
     code |-> envelope[r].code, message |-> envelope[r].message]

DenialView ==
    [status |-> 403, contentType |-> 1, body |-> <<"error">>,
     envStatus |-> 403, code |-> "data_cant_view",
     message |-> "user is not authorized to view data"]

\* the caller is no server, not the target, and holds neither permission
CallerUnauthorized(r) ==
    \/ req[r].path = "data" /\ req[r].sessionToken = "" /\ req[r].restricted = 0
    \/ PastAuth(r) /\ td[r].nil
    \/ /\ PastGate(r)
       /\ ~td[r].nil
       /\ ~td[r].IsServer
       /\ td[r].UserID # Target(r)
       /\ ~(perms[r].root \/ perms[r].view)

----------------------------------------------------------------------------
(* C1 *)

----------------------------------------------------------------------------
(* C2 *)

\* C2: whichever of the three causes made the gate refuse (no identity, no
\* permission, failed permission lookup), the client receives the same
\* status, content type, code and message; only the correlation id differs.
C2_UniformDenial ==
    \A r \in Reqs :
        denial[r] \in {"no_identity", "no_permission", "lookup_failed"}
            => /\ ClientView(r) = DenialView
               /\ envelope[r].id = uuids

\* the permission lookup failed for a caller with a valid identity
C2_Witness ==
    \E r \in Reqs :
        /\ denial[r] = "lookup_failed"
        /\ perms[r].err
        /\ ~td[r].nil
        /\ Finished(r)

----------------------------------------------------------------------------
(* C3 *)

GateAllowed(r) == PastGate(r) /\ envelope[r].code # "data_cant_view"

\* C3: once the gate has decided, the request was allowed exactly when an
\* identity was resolved and it is a server, or the target itself, or the
\* permission lookup succeeded with root or view; the lookup was made exactly
\* when the identity is neither a server nor the target.
C3_GateDecision ==
    \A r \in Reqs :
        PastGate(r) =>
            /\ GateAllowed(r) <=>
                  /\ ~td[r].nil
                  /\ \/ td[r].IsServer
                     \/ td[r].UserID = Target(r)
                     \/ /\ perms[r].called
                        /\ ~perms[r].err
                        /\ (perms[r].root \/ perms[r].view)
            /\ Called(r, "UserInGroup") <=>
                  (~td[r].nil /\ ~td[r].IsServer /\ td[r].UserID # Target(r))
            /\ Called(r, "UserInGroup") <=> perms[r].called
            /\ perms[r].err => ~GateAllowed(r)

\* a caller holding only the view permission was let through
C3_Witness ==
    \E r \in Reqs :
        /\ GateAllowed(r)
        /\ ~td[r].IsServer /\ td[r].UserID # Target(r)
        /\ perms[r].view /\ ~perms[r].root
        /\ pc[r] = "carelink"

----------------------------------------------------------------------------
(* C4 *)

\* C4: when the session header carries a token, CheckToken is the only
\* credential call ever made and the restricted token is never fetched, so
\* an invalid header token leaves the request without identity; the
\* restricted token is fetched only when the header carries no token.
C4_FirstMatchWins ==
    \A r \in Reqs :
        /\ req[r].sessionToken # "" =>
              /\ ~Called(r, "GetRestrictedToken")
              /\ ~restrictedToken[r].called
              /\ PastAuth(r) => TimesCalled(r, "CheckToken") = 1
        /\ Called(r, "GetRestrictedToken") =>
              /\ req[r].sessionToken = ""
              /\ ~Called(r, "CheckToken")

\* an invalid header token next to a restricted token: refused, not fetched
C4_Witness ==
    \E r \in Reqs :
        /\ req[r].sessionToken # "" /\ req[r].restricted = 1
        /\ Finished(r) /\ Parsed(r)
        /\ td[r].nil
        /\ calls[r] = <<"CheckToken">>
        /\ ClientView(r) = DenialView

----------------------------------------------------------------------------
(* C5 *)

\* C5: without a header token, an identity is resolved exactly when one
\* restricted_token value is present, its fetch returned no error and a
\* token, and the token authenticates the request; that identity carries the
\* token's user and is no server, so it passes the gate only as the target
\* or with a permission; otherwise there is no identity, and no fetch is
\* made unless exactly one value is present.
C5_RestrictedIdentity ==
    \A r \in Reqs :
        PastAuth(r) /\ req[r].sessionToken = "" =>
            /\ ~td[r].nil <=>
                  /\ req[r].restricted = 1
                  /\ restrictedToken[r].called
                  /\ ~restrictedToken[r].err
                  /\ ~restrictedToken[r].nil
                  /\ restrictedToken[r].Authenticates
            /\ ~td[r].nil =>
                  /\ td[r].UserID = restrictedToken[r].UserID
                  /\ ~td[r].IsServer
            /\ restrictedToken[r].called <=> req[r].restricted = 1
            /\ GateAllowed(r) =>
                  \/ td[r].UserID = Target(r)
                  \/ perms[r].root \/ perms[r].view

\* a fetched token that does not authenticate the request gave no identity
C5_Witness ==
    \E r \in Reqs :
        /\ PastAuth(r) /\ req[r].sessionToken = ""
        /\ restrictedToken[r].called
        /\ ~restrictedToken[r].err /\ ~restrictedToken[r].nil
        /\ ~restrictedToken[r].Authenticates
        /\ td[r].nil
        /\ Finished(r) /\ ClientView(r) = DenialView

----------------------------------------------------------------------------
(* JSON syntax of a body, token by token *)

Count(b, t) == Len(SelectSeq(b, LAMBDA x : x = t))

\* whitespace between tokens is insignificant
StripWhitespace(b) == SelectSeq(b, LAMBDA x : x # "\n")

\* '[' value (',' value)* ']' or '[' ']'
IsJSONArray(b) ==
    LET s == StripWhitespace(b)
        n == Len(s)
    IN  /\ n >= 2
        /\ s[1] = "["
        /\ s[n] = "]"
        /\ n > 2 => n % 2 = 1
        /\ \A i \in 2..(n - 1) : s[i] = (IF i % 2 = 0 THEN "doc" ELSE ",")

IsJSONObject(b) == b = <<"error">>

\* the filter has been handed to the Query Executor
Queried(r) == Called(r, "GetDeviceData")

LookupFailed(r) ==
    \/ lookups[r].hasMedtronicDirectData = "err"
    \/ lookups[r].dexcomDataSource = "err"
    \/ lookups[r].hasMedtronicLoopData = "err"
    \/ lookups[r].medtronicUploadIds = "err"

----------------------------------------------------------------------------
(* C6 *)

\* C6 as stated: the complete body of every finished request, on either
\* endpoint, is valid JSON, one array or one error object.
C6_Original ==
    \A r \in Reqs :
        pc[r] = "done" =>
            IsJSONObject(res[r].body) \/ IsJSONArray(res[r].body)

\* C6 amended: the complete body of every finished GET /{userID} request is
\* valid JSON, either the one error object or one array; the array holds
\* exactly the documents of the cursor that serialize, with one comma between
\* consecutive ones (commas = documents - 1, none for no document), whatever
\* the cursor yielded. A successful GET /status answers the text OK instead.
C6_ValidJSON ==
    /\ \A r \in Reqs :
        Finished(r) =>
            \/ /\ IsJSONObject(res[r].body)
               /\ envelope[r] # NoEnvelope
               /\ ~Queried(r)
            \/ /\ IsJSONArray(res[r].body)
               /\ envelope[r] = NoEnvelope
               /\ Count(res[r].body, "doc") = Count(iter[r].docs, "doc")
               /\ Count(res[r].body, "doc") > 0
                     => Count(res[r].body, ",") = Count(res[r].body, "doc") - 1
               /\ Count(res[r].body, "doc") = 0 => Count(res[r].body, ",") = 0
    /\ \A r \in Reqs :
        StatusFinished(r) =>
            \/ res[r].body = <<"OK\n">> /\ envelope[r] = NoEnvelope
            \/ /\ IsJSONObject(res[r].body)
               /\ envelope[r].code = "data_status_check"

\* a skipped document first, then one that is written: no leading comma
C6_Witness ==
    \E r \in Reqs :
        /\ Finished(r)
        /\ Len(iter[r].docs) >= 2
        /\ iter[r].docs[1] = "unmarshalable"
        /\ iter[r].docs[2] = "doc"
        /\ res[r].body[2] # ","
        /\ IsJSONArray(res[r].body)

----------------------------------------------------------------------------
(* C7 *)

\* C7: a finished request that passed the gate and had no failing enrichment
\* lookup has status 200 and no error envelope, and if no document was
\* written its body is exactly '[]'.
C7_SuccessIs200 ==
    \A r \in Reqs :
        Finished(r) /\ GateAllowed(r) /\ ~LookupFailed(r) =>
            /\ res[r].status = 200
            /\ envelope[r] = NoEnvelope
            /\ Queried(r)
            /\ Count(iter[r].docs, "doc") = 0 => res[r].body = <<"[", "]">>

\* every document of the cursor was skipped and the body is '[]'
C7_Witness ==
    \E r \in Reqs :
        /\ Finished(r) /\ GateAllowed(r) /\ ~LookupFailed(r)
        /\ Len(iter[r].docs) > 0
        /\ Count(iter[r].docs, "doc") = 0
        /\ res[r].body = <<"[", "]">>
        /\ res[r].status = 200

----------------------------------------------------------------------------
(* C8 *)

\* C8: without a carelink parameter, a store answer of 'no Medtronic-direct
\* data' puts Carelink=true into the filter handed to the query; with the
\* parameter, the lookup is never made and Carelink is the parsed value.
C8_Carelink ==
    \A r \in Reqs :
        /\ Queried(r) /\ req[r].carelink = "absent"
              /\ lookups[r].hasMedtronicDirectData = "false"
              => queryParams[r].Carelink
        /\ req[r].carelink # "absent" =>
              /\ ~Called(r, "HasMedtronicDirectData")
              /\ lookups[r].hasMedtronicDirectData = "none"
              /\ PastAuth(r) =>
                    queryParams[r].Carelink = GetParams(req[r]).Carelink

\* no carelink parameter, no Medtronic-direct data, query made
C8_Witness ==
    \E r \in Reqs :
        /\ Queried(r)
        /\ req[r].carelink = "absent"
        /\ lookups[r].hasMedtronicDirectData = "false"
        /\ queryParams[r].Carelink

----------------------------------------------------------------------------
(* C9 *)

\* C9: without a medtronic parameter, a store answer of 'no Medtronic loop
\* data after 2017-09-01' puts Medtronic=true into the filter handed to the
\* query, and the loopable-upload-id lookup is never made in that request.
C9_Medtronic ==
    \A r \in Reqs :
        req[r].medtronic = "absent" /\ lookups[r].hasMedtronicLoopData = "false"
            => /\ ~Called(r, "GetLoopableMedtronicDirectUploadIdsAfter")
               /\ lookups[r].medtronicUploadIds = "none"
               /\ queryParams[r].Medtronic
               /\ Finished(r) => Queried(r)

\* no medtronic parameter, no loop data, the request ran to its end
C9_Witness ==
    \E r \in Reqs :
        /\ req[r].medtronic = "absent"
        /\ lookups[r].hasMedtronicLoopData = "false"
        /\ Finished(r) /\ Queried(r)
        /\ queryParams[r].Medtronic

----------------------------------------------------------------------------
(* C10 *)

\* C10: in the filter handed to the query, Medtronic=false comes with
\* MedtronicDate = 2017-09-01 and the upload ids the lookup returned;
\* Medtronic=true comes with both fields as the parser left them and no
\* upload-id lookup.
C10_MedtronicFields ==
    \A r \in Reqs :
        Queried(r) =>
            /\ ~queryParams[r].Medtronic =>
                  /\ queryParams[r].MedtronicDate = "2017-09-01"
                  /\ lookups[r].medtronicUploadIds \in {"empty", "ids"}
                  /\ queryParams[r].MedtronicUploadIds
                        = lookups[r].medtronicUploadIds
                  /\ TimesCalled(r,
                        "GetLoopableMedtronicDirectUploadIdsAfter") = 1
            /\ queryParams[r].Medtronic =>
                  /\ queryParams[r].MedtronicDate
                        = GetParams(req[r]).MedtronicDate
                  /\ queryParams[r].MedtronicUploadIds
                        = GetParams(req[r]).MedtronicUploadIds
                  /\ ~Called(r, "GetLoopableMedtronicDirectUploadIdsAfter")

\* loop data exists: the upload ids and the boundary date are in the filter
C10_Witness ==
    \E r \in Reqs :
        /\ Queried(r)
        /\ req[r].medtronic = "absent"
        /\ lookups[r].hasMedtronicLoopData = "true"
        /\ ~queryParams[r].Medtronic
        /\ queryParams[r].MedtronicUploadIds = "ids"
        /\ queryParams[r].MedtronicDate = "2017-09-01"

----------------------------------------------------------------------------
(* C11 *)

StoreLookups ==
    <<"HasMedtronicDirectData", "GetDexcomDataSource",
      "HasMedtronicLoopDataAfter", "GetLoopableMedtronicDirectUploadIdsAfter">>

LookupResult(r, i) ==
    CASE i = 1 -> lookups[r].hasMedtronicDirectData
      [] i = 2 -> lookups[r].dexcomDataSource
      [] i = 3 -> lookups[r].hasMedtronicLoopData
      [] i = 4 -> lookups[r].medtronicUploadIds

StoreErrorView ==
    [status |-> 500, contentType |-> 1, body |-> <<"error">>,
     envStatus |-> 500, code |-> "data_store_error",
     message |-> "internal server error"]

\* C11: as soon as one of the four enrichment lookups has returned an error
\* the request is over with the 500 data_store_error envelope: the failed
\* lookup is the last call the handler made and was made once, no later
\* lookup was made, the main query was not run and no cursor exists.
C11_FailFast ==
    \A r \in Reqs : \A i \in 1..4 :
        LookupResult(r, i) = "err" =>
            /\ Finished(r)
            /\ ClientView(r) = StoreErrorView
            /\ calls[r][Len(calls[r])] = StoreLookups[i]
            /\ TimesCalled(r, StoreLookups[i]) = 1
            /\ \A j \in (i + 1)..4 :
                  /\ LookupResult(r, j) = "none"
                  /\ ~Called(r, StoreLookups[j])
            /\ ~Called(r, "GetDeviceData")
            /\ iter[r] = NoIter

\* the second lookup failed after the first had succeeded
C11_Witness ==
    \E r \in Reqs :
        /\ lookups[r].hasMedtronicDirectData = "true"
        /\ lookups[r].dexcomDataSource = "err"
        /\ Finished(r)
        /\ ClientView(r) = StoreErrorView

----------------------------------------------------------------------------
(* C12 *)

\* the handler is over: it returned or it unwound from a panic
Ended(r) == pc[r] \in {"done", "aborted"}

\* C12: a cursor that the query returned is closed exactly once by the time
\* the request is over, whether the cursor ran out, a document failed to
\* serialize on the way or serialization panicked, and it is never closed
\* twice; a request that has not run the query holds no cursor and closes
\* none.
C12_CursorClosedOnce ==
    \A r \in Reqs :
        /\ iter[r].closed <= 1
        /\ TimesCalled(r, "Close") = iter[r].closed
        /\ (iter[r].open /\ Ended(r)) => iter[r].closed = 1
        /\ (iter[r].open /\ ~Ended(r)) => iter[r].closed = 0
        /\ iter[r].open <=> Called(r, "GetDeviceData")
        /\ ~iter[r].open => iter[r] = NoIter

\* serialization panicked on the document after one that failed to serialize
C12_Witness ==
    \E r \in Reqs :
        /\ pc[r] = "aborted"
        /\ iter[r].docs = <<"unmarshalable", "panics">>
        /\ iter[r].closed = 1

----------------------------------------------------------------------------
(* C13 *)

\* C13 as stated: when the main query or its cursor has failed, the client
\* gets the 500 data_store_error envelope, as for a failed enrichment lookup.
C13_QueryFailureSurfaced ==
    \A r \in Reqs :
        Finished(r) /\ iter[r].err => ClientView(r) = StoreErrorView

\* what the handler answers instead: the query failed before the first
\* document, and the client gets status 200 and the empty array
C13_FailureAnswered200 ==
    \E r \in Reqs :
        /\ Finished(r)
        /\ iter[r].err
        /\ iter[r].docs = <<>>
        /\ res[r].status = 200
        /\ res[r].body = <<"[", "]">>
        /\ envelope[r] = NoEnvelope

----------------------------------------------------------------------------
(* C14 *)

\* the response of r is an error response
ErrorResponse(r) == res[r].status \notin {0, StatusOK}

\* C14: every error response carries one envelope made from one entry of the
\* catalog: the committed HTTP status, the status inside the envelope and the
\* entry's Status are the same number, code and message are the entry's, the
\* envelope has the four fields status, id, code, message and nothing else,
\* and the internal message that was logged appears in none of them. A
\* response with an envelope is an error response.
C14_EnvelopeFromCatalog ==
    \A r \in Reqs :
        /\ envelope[r] # NoEnvelope => ErrorResponse(r)
        /\ ErrorResponse(r) =>
            /\ \E name \in DOMAIN Catalog :
                  /\ res[r].status = Catalog[name].Status
                  /\ envelope[r].status = Catalog[name].Status
                  /\ envelope[r].code = Catalog[name].Code
                  /\ envelope[r].message = Catalog[name].Message
            /\ DOMAIN envelope[r] = {"status", "id", "code", "message"}
            /\ res[r].body = <<"error">>
            /\ logged[r].internal # "" =>
                  \A f \in {"code", "message"} :
                      envelope[r][f] # logged[r].internal

\* the status check failed: the envelope is the catalog's, the store's message
\* went to the log only
C14_Witness ==
    \E r \in Reqs :
        /\ StatusFinished(r)
        /\ res[r].status = 500
        /\ envelope[r].code = "data_status_check"
        /\ logged[r].internal = "ping failed"

----------------------------------------------------------------------------
(* C15 *)

InvalidParametersView ==
    [status |-> 500, contentType |-> 1, body |-> <<"error">>,
     envStatus |-> 500, code |-> "invalid_parameters",
     message |-> "one or more parameters are invalid"]

\* C15: a GET /{userID} request whose query parameters do not parse is either
\* still waiting to be parsed, with nothing written, or over with the
\* envelope invalid_parameters and status 500; at no time has it called the
\* gatekeeper, the sharing service or the store, run the query, got a cursor
\* or written any part of an array.
C15_InvalidParameters ==
    \A r \in Reqs :
        req[r].path = "data" /\ GetParamsFails(req[r]) =>
            /\ pc[r] \in {"parse", "done"}
            /\ pc[r] = "parse" =>
                  res[r] = NoResponse /\ envelope[r] = NoEnvelope
            /\ pc[r] = "done" => ClientView(r) = InvalidParametersView
            /\ calls[r] = <<>>
            /\ lookups[r] = NoLookups
            /\ queryParams[r] = NoParams
            /\ iter[r] = NoIter
            /\ Count(res[r].body, "[") = 0

\* a request with a session token and an unparsable date has been answered
C15_Witness ==
    \E r \in Reqs :
        /\ req[r].path = "data"
        /\ GetParamsFails(req[r])
        /\ req[r].sessionToken = "token"
        /\ pc[r] = "done"
        /\ envelope[r].code = "invalid_parameters"
        /\ res[r].status = 500

----------------------------------------------------------------------------
(* C16 *)

RECURSIVE Elements(_)
\* the bytes of k serialized documents inside the array
Elements(k) ==
    IF k = 0 THEN <<>>
    ELSE Elements(k - 1) \o (IF k > 1 THEN <<",">> ELSE <<>>) \o <<"\n", "doc">>

\* C16: while the array is streamed and after it is closed the body is the
\* opening bracket followed by exactly the documents of the cursor that
\* serialize, in order and separated by single commas, so a document that
\* fails to serialize or is empty adds neither bytes nor a comma and does not
\* stop the ones after it from being written; when the cursor has ended the
\* array is closed with ']'; the status is 200 and no envelope is written.
C16_SkippedDocument ==
    \A r \in Reqs :
        iter[r].open /\ pc[r] # "stream" =>
            LET k == Count(iter[r].docs, "doc")
            IN  /\ pc[r] \in {"next", "done", "aborted"}
                /\ pc[r] # "done" => res[r].body = <<"[">> \o Elements(k)
                /\ pc[r] = "done" =>
                      res[r].body = <<"[">> \o Elements(k)
                                    \o (IF k > 0 THEN <<"\n">> ELSE <<>>)
                                    \o <<"]">>
                /\ res[r].status = 200
                /\ envelope[r] = NoEnvelope

\* the first document failed to serialize, the one after it was written, and
\* the array was closed around that one document
C16_Witness ==
    \E r \in Reqs :
        /\ Finished(r)
        /\ iter[r].docs = <<"unmarshalable", "doc">>
        /\ res[r].body = <<"[", "\n", "doc", "\n", "]">>
        /\ res[r].status = 200

----------------------------------------------------------------------------
(* C17 *)

\* nothing of the response of r has been committed
NotStarted(r) == res[r] = NoResponse

\* the response of r holds no envelope together with array content, and at
\* most one envelope
C17_NeverBoth ==
    \A r \in Reqs :
        /\ Count(res[r].body, "error") <= 1
        /\ Count(res[r].body, "error") = 1 <=> envelope[r] # NoEnvelope
        /\ envelope[r] # NoEnvelope => res[r].body = <<"error">>
        /\ Count(res[r].body, "[") > 0 =>
              /\ envelope[r] = NoEnvelope
              /\ res[r].status = 200
              /\ res[r].contentType = 1

\* one step of the handler of r keeps the response on its path: the error
\* reporter acts only on a response that has not started, and a response that
\* has started only grows and keeps its status, its headers and its envelope
C17_Step ==
    \A r \in Reqs :
        pc'[r] # "idle" =>
            /\ envelope'[r] # envelope[r] => NotStarted(r)
            /\ logged'[r] # logged[r] => NotStarted(r)
            /\ ~NotStarted(r) =>
                  /\ res'[r].status = res[r].status
                  /\ res'[r].contentType = res[r].contentType
                  /\ Len(res'[r].body) >= Len(res[r].body)
                  /\ SubSeq(res'[r].body, 1, Len(res[r].body)) = res[r].body
                  /\ pc[r] \in {"next", "done", "aborted"}
                  /\ pc[r] \in {"done", "aborted"} => res'[r] = res[r]

\* C17: the response of a request goes from not started to streaming to
\* closed: the error reporter is invoked at most once per request and only
\* while nothing has been written; once '[' is written no envelope is
\* written and status and headers stay as they are; no response ever holds
\* an envelope and array content.
C17_ResponseStates == [](C17_NeverBoth) /\ [][C17_Step]_vars

\* the array is being streamed after a document that failed to serialize
C17_Witness ==
    \E r \in Reqs :
        /\ pc[r] = "next"
        /\ iter[r].docs = <<"unmarshalable">>
        /\ res[r] = [status |-> 200, contentType |-> 1, body |-> <<"[">>]
        /\ envelope[r] = NoEnvelope

----------------------------------------------------------------------------
(* C18 *)

\* the store accesses of the pipeline, in the order of the handler
StoreOrder ==
    <<"HasMedtronicDirectData", "GetDexcomDataSource",
      "HasMedtronicLoopDataAfter", "GetLoopableMedtronicDirectUploadIdsAfter",
      "GetDeviceData">>

\* the place of a store access in StoreOrder; 0 for the liveness probe
Rank(name) ==
    CASE name = StoreOrder[1] -> 1
      [] name = StoreOrder[2] -> 2
      [] name = StoreOrder[3] -> 3
      [] name = StoreOrder[4] -> 4
      [] name = StoreOrder[5] -> 5
      [] OTHER -> 0

IsStoreAccess(name) == name = "Ping" \/ Rank(name) > 0

\* the store accesses r has made so far, in the order it made them
StoreAccesses(r) == SelectSeq(calls[r], IsStoreAccess)

\* the caller of r was identified and is a server, the target, or holds root
\* or view on the target
Authorized(r) ==
    /\ ~td[r].nil
    /\ \/ td[r].IsServer
       \/ td[r].UserID = Target(r)
       \/ perms[r].called /\ ~perms[r].err /\ (perms[r].root \/ perms[r].view)

\* the store accesses of r follow the gate and keep the fixed order: the
\* call after a store access is a store access later in the order, or the
\* closing of the cursor, which is the last call
OrderedAfterGate(r) ==
    /\ StoreAccesses(r) # <<>> => Authorized(r)
    /\ \A i \in 1..(Len(calls[r]) - 1) :
          /\ calls[r][i] # "Close"
          /\ IsStoreAccess(calls[r][i]) =>
                \/ calls[r][i + 1] = "Close"
                \/ /\ Rank(calls[r][i]) > 0
                   /\ Rank(calls[r][i]) < Rank(calls[r][i + 1])

\* C18 as stated, for every request the service handles: the store is
\* accessed only after the gate has allowed the request, in the fixed order
\* and each access at most once.
C18_Original == \A r \in Reqs : OrderedAfterGate(r)

\* C18 amended: within one GET /{userID} request the store is accessed only
\* after the gate has allowed the request, and in the fixed order Medtronic
\* direct lookup, Dexcom data-source lookup, Medtronic loop lookup, loopable
\* upload-id lookup, main query, each at most once; a denied or
\* unauthenticated GET /{userID} request causes no store access. (GET /status
\* probes the store without any authorization.)
C18_StoreOrder ==
    \A r \in Reqs :
        req[r].path = "data" =>
            /\ OrderedAfterGate(r)
            /\ ~Called(r, "Ping")
            /\ (Ended(r) /\ ~Authorized(r)) => StoreAccesses(r) = <<>>
            /\ envelope[r].code = "data_cant_view" => StoreAccesses(r) = <<>>

\* a caller holding the view permission has made all five accesses
C18_Witness ==
    \E r \in Reqs :
        /\ StoreAccesses(r) = StoreOrder
        /\ Called(r, "UserInGroup")
        /\ perms[r].view
        /\ pc[r] = "stream"

----------------------------------------------------------------------------
(* C20 *)

\* the handler of r has left the Dexcom step behind
PastDexcom(r) ==
    \/ pc[r] \in {"medtronic", "uploadids", "query", "stream", "next",
                  "aborted"}
    \/ /\ Finished(r)
       /\ \/ Queried(r)
          \/ lookups[r].dexcomDataSource = "err"
          \/ lookups[r].hasMedtronicLoopData = "err"
          \/ lookups[r].medtronicUploadIds = "err"

\* C20: the Dexcom data-source lookup is made only for a filter whose Dexcom
\* flag is not true and, once the handler is past that step, has been made
\* exactly when the parsed flag is not true; a lookup that succeeded has its
\* result in the filter; the filter handed to the query keeps the parsed
\* Dexcom flag and has a data source only when that flag is false.
C20_DexcomDataSource ==
    \A r \in Reqs :
        /\ Called(r, "GetDexcomDataSource") =>
              /\ ~queryParams[r].Dexcom
              /\ lookups[r].dexcomDataSource # "none"
        /\ PastDexcom(r) =>
              (Called(r, "GetDexcomDataSource") <=> ~GetParams(req[r]).Dexcom)
        /\ lookups[r].dexcomDataSource \in {"nil", "source"} =>
              queryParams[r].DexcomDataSource = lookups[r].dexcomDataSource
        /\ Queried(r) =>
              /\ queryParams[r].Dexcom = GetParams(req[r]).Dexcom
              /\ queryParams[r].DexcomDataSource # "nil" =>
                    ~queryParams[r].Dexcom

\* dexcom=false was given, the lookup found a data source, and the query got
\* the filter with it
C20_Witness ==
    \E r \in Reqs :
        /\ req[r].dexcom = "false"
        /\ lookups[r].dexcomDataSource = "source"
        /\ Queried(r)
        /\ queryParams[r].DexcomDataSource = "source"

----------------------------------------------------------------------------
(* C19 *)

\* handler r has written an error envelope
Reported(r) == envelope[r] # NoEnvelope

\* the internal message of the failure of r's own request
OwnInternalMessage(r) ==
    IF req[r].path = "status" THEN lookups[r].ping ELSE ""

\* C19: whatever the interleaving of the handlers, the entries of the shared
\* catalog keep their initial value, Id and InternalMessage empty; the id in
\* an envelope is the one logged for the same request, was handed out for it
\* and differs from the id of every other envelope; code, message and
\* internal message logged or returned for a request are those of its own
\* failure.
C19_NoSharedState ==
    /\ catalog = Catalog
    /\ \A name \in DOMAIN catalog :
          catalog[name].Id = 0 /\ catalog[name].InternalMessage = ""
    /\ \A r \in Handlers :
          Reported(r) =>
              /\ envelope[r].id = logged[r].id
              /\ envelope[r].id = detErr[r].Id
              /\ envelope[r].id \in 1..uuids
              /\ envelope[r].code = Catalog[EntryName(req[r])].Code
              /\ logged[r].code = envelope[r].code
              /\ logged[r].message = envelope[r].message
              /\ logged[r].internal = OwnInternalMessage(r)
    /\ \A r, q \in Handlers :
          (r # q /\ pc[r] \in {"respond", "done"}
                 /\ pc[q] \in {"respond", "done"}
                 /\ detErr[r] # NoError /\ detErr[q] # NoError) =>
              detErr[r].Id # detErr[q].Id

\* two status checks failed side by side with different store errors; each
\* envelope has its own id and each log line its own store error
C19_Witness ==
    /\ Reported("h1") /\ Reported("h2")
    /\ pc["h1"] = "done" /\ pc["h2"] = "done"
    /\ logged["h1"].internal = "ping failed"
    /\ logged["h2"].internal = "no reachable servers"
    /\ envelope["h1"].id = 2
    /\ envelope["h2"].id = 1

====
